---- MODULE Spec2Model ----
(***************************************************************************)
(* Model of analyzeSlideImage and sanitizeJsonString.                      *)
(*                                                                         *)
(* Two versions of the service are in the repository:                      *)
(*   - the sanitizing one (sanitizeJsonString followed by JSON.parse), and *)
(*   - services/geminiService.ts, which strips the fences inline.          *)
(* A string is a sequence of UTF-16 code units (naturals).  Indices that   *)
(* the source computes (indexOf, lastIndexOf, substring) are 0-based as in *)
(* the source; TLA+ sequences are 1-based, so s[i + 1] is the source's     *)
(* s[i].                                                                   *)
(***************************************************************************)
EXTENDS Integers, Sequences, FiniteSets, TLC

VARIABLES
    pc,             \* "idle", "awaiting", "returned", "thrown"
    variant,        \* which version of analyzeSlideImage runs the call
    calls,          \* number of ai.models.generateContent requests issued
    text,           \* response.text as received
    sanitizedText,  \* the string handed to JSON.parse
    sanitizeCalls,  \* number of fence-stripping / sanitizing passes made
    parseCalls,     \* number of JSON.parse calls made
    result,         \* the value the promise resolved with
    error,          \* the error the promise rejected with
    warned,         \* the "Retrying with more aggressive cleaning..." branch ran
    pending         \* how the remote call of this run is going to answer

vars == <<pc, variant, calls, text, sanitizedText, sanitizeCalls, parseCalls,
          result, error, warned, pending>>

----------------------------------------------------------------------------
(* Characters named in the source.                                         *)

Backtick == 96
OpenBrace == 123
CloseBrace == 125
Backslash == 92
LetterU == 117

\* "```json" and "```"
FenceJson == <<96, 96, 96, 106, 115, 111, 110>>
Fence == <<96, 96, 96>>

\* \s of a JavaScript regular expression, and what String.prototype.trim
\* removes: WhiteSpace and LineTerminator code units.
WhiteSpace ==
    {9, 10, 11, 12, 13, 32, 160, 5760, 8232, 8233, 8239, 8287, 12288, 65279}
        \cup (8192..8202)

IsSpace(c) == c \in WhiteSpace

\* [0-9a-fA-F]
HexDigits == (48..57) \cup (97..102) \cup (65..70)

IsHex(c) == c \in HexDigits

\* [\x00-\x08\x0B\x0C\x0E-\x1F\x7F-\x9F]
RemovedControls == (0..8) \cup {11, 12} \cup (14..31) \cup (127..159)

IsRemovedControl(c) == c \in RemovedControls

----------------------------------------------------------------------------
(* String primitives of the JavaScript runtime.                            *)

Min(a, b) == IF a <= b THEN a ELSE b
Max(a, b) == IF a >= b THEN a ELSE b

\* p occurs in s at 1-based position i
OccursAt(s, p, i) ==
    /\ i >= 1
    /\ i + Len(p) - 1 <= Len(s)
    /\ \A k \in 1..Len(p) : s[i + k - 1] = p[k]

EndsWith(s, p) == OccursAt(s, p, Len(s) - Len(p) + 1)

StartsWith(s, p) == OccursAt(s, p, 1)

\* 1-based position of the leftmost occurrence of p in s, 0 when there is none
FirstOccurrence(s, p) ==
    IF \E i \in 1..Len(s) : OccursAt(s, p, i)
    THEN CHOOSE i \in 1..Len(s) :
            OccursAt(s, p, i) /\ \A j \in 1..(i - 1) : ~OccursAt(s, p, j)
    ELSE 0

\* String.prototype.indexOf(c): 0-based, -1 when absent
indexOf(s, c) ==
    IF \E i \in 1..Len(s) : s[i] = c
    THEN (CHOOSE i \in 1..Len(s) : s[i] = c /\ \A j \in 1..(i - 1) : s[j] # c) - 1
    ELSE -1

\* String.prototype.lastIndexOf(c): 0-based, -1 when absent
lastIndexOf(s, c) ==
    IF \E i \in 1..Len(s) : s[i] = c
    THEN (CHOOSE i \in 1..Len(s) :
            s[i] = c /\ \A j \in (i + 1)..Len(s) : s[j] # c) - 1
    ELSE -1

\* String.prototype.substring(start, end): both clamped to 0..length and
\* swapped when start > end; end is exclusive.
substring(s, start, end) ==
    LET a == Max(0, Min(start, Len(s)))
        b == Max(0, Min(end, Len(s)))
    IN  SubSeq(s, Min(a, b) + 1, Max(a, b))

\* String.prototype.trim
trim(s) ==
    IF \A i \in 1..Len(s) : IsSpace(s[i])
    THEN << >>
    ELSE LET first == CHOOSE i \in 1..Len(s) :
                        ~IsSpace(s[i]) /\ \A j \in 1..(i - 1) : IsSpace(s[j])
             last == CHOOSE i \in 1..Len(s) :
                        ~IsSpace(s[i]) /\ \A j \in (i + 1)..Len(s) : IsSpace(s[j])
         IN  SubSeq(s, first, last)

\* length of the run of whitespace that starts at 1-based position i
RECURSIVE SpaceRunFrom(_, _)
SpaceRunFrom(s, i) ==
    IF i <= Len(s) /\ IsSpace(s[i]) THEN 1 + SpaceRunFrom(s, i + 1) ELSE 0

\* length of the run of whitespace that ends at 1-based position i
RECURSIVE SpaceRunBefore(_, _)
SpaceRunBefore(s, i) ==
    IF i >= 1 /\ IsSpace(s[i]) THEN 1 + SpaceRunBefore(s, i - 1) ELSE 0

----------------------------------------------------------------------------
(* sanitizeJsonString, step by step.                                       *)

\* str.replace(/```json\s?/, ""): the leftmost "```json", wherever it is,
\* with at most one whitespace character after it.
stripJsonFence(str) ==
    LET i == FirstOccurrence(str, FenceJson)
        after == i + Len(FenceJson)
        n == IF after <= Len(str) /\ IsSpace(str[after]) THEN 1 ELSE 0
    IN  IF i = 0
        THEN str
        ELSE SubSeq(str, 1, i - 1) \o SubSeq(str, after + n, Len(str))

\* .replace(/```\s?$/, ""): "```" at the very end, or followed by exactly
\* one whitespace character that ends the string.
stripClosingFence(s) ==
    IF EndsWith(s, Fence)
    THEN SubSeq(s, 1, Len(s) - 3)
    ELSE IF Len(s) >= 4 /\ IsSpace(s[Len(s)]) /\ OccursAt(s, Fence, Len(s) - 3)
         THEN SubSeq(s, 1, Len(s) - 4)
         ELSE s

\* let cleaned = str.replace(...).replace(...).trim()
unfenced(str) == trim(stripClosingFence(stripJsonFence(str)))

\* boundToBraces cutting at the first '}' instead of the last
boundToBraces_firstClose(cleaned) ==
    LET firstBrace == indexOf(cleaned, OpenBrace)
        lastBrace == indexOf(cleaned, CloseBrace)
    IN  IF firstBrace # -1 /\ lastBrace # -1
        THEN substring(cleaned, firstBrace, lastBrace + 1)
        ELSE cleaned

\* boundToBraces with an exclusive end that leaves the last '}' out
boundToBraces_exclusive(cleaned) ==
    LET firstBrace == indexOf(cleaned, OpenBrace)
        lastBrace == lastIndexOf(cleaned, CloseBrace)
    IN  IF firstBrace # -1 /\ lastBrace # -1
        THEN substring(cleaned, firstBrace, lastBrace)
        ELSE cleaned

\* the "actual JSON object bounds" step
boundToBraces(cleaned) ==
    LET firstBrace == indexOf(cleaned, OpenBrace)
        lastBrace == lastIndexOf(cleaned, CloseBrace)
    IN  IF firstBrace # -1 /\ lastBrace # -1
        THEN substring(cleaned, firstBrace, lastBrace + 1)
        ELSE cleaned

\* (?![0-9a-fA-F]{4}) evaluated at 1-based position i
FourHexAt(s, i) ==
    /\ i + 3 <= Len(s)
    /\ \A k \in 0..3 : IsHex(s[i + k])

\* BadEscapeAt without the lookahead: every backslash-u matches
BadEscapeAt_noLookahead(s, i) ==
    /\ i + 1 <= Len(s)
    /\ s[i] = Backslash
    /\ s[i + 1] = LetterU

\* /\\u(?![0-9a-fA-F]{4})/ matches at 1-based position i
BadEscapeAt(s, i) ==
    /\ i + 1 <= Len(s)
    /\ s[i] = Backslash
    /\ s[i + 1] = LetterU
    /\ ~FourHexAt(s, i + 2)

\* cleaned.replace(/\\u(?![0-9a-fA-F]{4})/g, "u"): one left-to-right scan
\* from 1-based position i.  The text up to the next match is copied, the
\* match (the backslash and the u) is replaced by "u", and the scan resumes
\* after the match.
RECURSIVE replaceBadEscapesFrom(_, _)
replaceBadEscapesFrom(s, i) ==
    IF \E j \in i..Len(s) : BadEscapeAt(s, j)
    THEN LET j == CHOOSE j \in i..Len(s) :
                    BadEscapeAt(s, j) /\ \A m \in i..(j - 1) : ~BadEscapeAt(s, m)
         IN  SubSeq(s, i, j - 1) \o <<LetterU>> \o replaceBadEscapesFrom(s, j + 2)
    ELSE SubSeq(s, i, Len(s))

replaceBadEscapes(s) == replaceBadEscapesFrom(s, 1)

\* removeControls over the whole 00-1F range, tab and line breaks included
removeControls_wholeRange(s) ==
    SelectSeq(s, LAMBDA c : ~(c \in (0..31) \cup (127..159)))

\* cleaned.replace(/[\x00-\x08\x0B\x0C\x0E-\x1F\x7F-\x9F]/g, "")
removeControls(s) == SelectSeq(s, LAMBDA c : ~IsRemovedControl(c))

sanitizeJsonString(str) ==
    removeControls(replaceBadEscapes(boundToBraces(unfenced(str))))

----------------------------------------------------------------------------
(* services/geminiService.ts: the inline fence stripping.                  *)

\* text.replace(/^```json\s*/, ''): only at the start, with all the
\* whitespace that follows.
stripLeadingJsonFence(s) ==
    IF StartsWith(s, FenceJson)
    THEN SubSeq(s, Len(FenceJson) + 1 + SpaceRunFrom(s, Len(FenceJson) + 1), Len(s))
    ELSE s

\* .replace(/\s*```$/, ''): "```" at the very end with all the whitespace
\* before it.
stripTrailingFence(s) ==
    IF EndsWith(s, Fence)
    THEN SubSeq(s, 1, Len(s) - 3 - SpaceRunBefore(s, Len(s) - 3))
    ELSE s

\* const jsonStr = text.replace(...).replace(...).trim()
jsonStr(s) == trim(stripTrailingFence(stripLeadingJsonFence(s)))

----------------------------------------------------------------------------
(* JSON.parse: a recursive-descent parser of the JSON grammar.  Each       *)
(* parser takes the text and a 1-based position and gives                  *)
(* [ok, pos, val]: whether it matched, the position after the match, and   *)
(* the value.  A value is [t |-> type, v |-> contents].                    *)

Quote == 34
Colon == 58
Comma == 44
OpenBracket == 91
CloseBracket == 93
Minus == 45
Plus == 43
Dot == 46
Zero == 48

Digits == 48..57

\* JSON whitespace: space, tab, line feed, carriage return
JsonSpace == {32, 9, 10, 13}

Failed == [ok |-> FALSE, pos |-> 0, val |-> [t |-> "none", v |-> << >>]]

Parsed(p, type, contents) ==
    [ok |-> TRUE, pos |-> p, val |-> [t |-> type, v |-> contents]]

At(s, i) == IF i >= 1 /\ i <= Len(s) THEN s[i] ELSE -1

RECURSIVE skipSpace(_, _)
skipSpace(s, i) == IF At(s, i) \in JsonSpace THEN skipSpace(s, i + 1) ELSE i

HexValue(c) ==
    IF c \in 48..57 THEN c - 48
    ELSE IF c \in 97..102 THEN c - 87
    ELSE c - 55

\* the character a single-letter escape stands for, -1 when it is none
EscapeValue(c) ==
    CASE c = 34 -> 34          \* \"
      [] c = 92 -> 92          \* \\
      [] c = 47 -> 47          \* \/
      [] c = 98 -> 8           \* \b
      [] c = 102 -> 12         \* \f
      [] c = 110 -> 10         \* \n
      [] c = 114 -> 13         \* \r
      [] c = 116 -> 9          \* \t
      [] OTHER -> -1

\* the characters of a string literal, from position i (after the opening
\* quote) to the closing quote
RECURSIVE parseStringBody(_, _, _)
parseStringBody(s, i, acc) ==
    LET c == At(s, i)
    IN  IF c = -1 \/ (c >= 0 /\ c < 32)
        THEN Failed
        ELSE IF c = Quote
        THEN Parsed(i + 1, "string", acc)
        ELSE IF c # Backslash
        THEN parseStringBody(s, i + 1, Append(acc, c))
        ELSE IF At(s, i + 1) = LetterU
        THEN IF FourHexAt(s, i + 2)
             THEN parseStringBody(s, i + 6,
                    Append(acc, HexValue(s[i + 2]) * 4096 + HexValue(s[i + 3]) * 256
                                + HexValue(s[i + 4]) * 16 + HexValue(s[i + 5])))
             ELSE Failed
        ELSE IF EscapeValue(At(s, i + 1)) # -1
        THEN parseStringBody(s, i + 2, Append(acc, EscapeValue(At(s, i + 1))))
        ELSE Failed

parseString(s, i) ==
    IF At(s, i) = Quote THEN parseStringBody(s, i + 1, << >>) ELSE Failed

\* position after the run of digits that starts at i
RECURSIVE skipDigits(_, _)
skipDigits(s, i) == IF At(s, i) \in Digits THEN skipDigits(s, i + 1) ELSE i

\* -? (0 | [1-9][0-9]*) (\. [0-9]+)? ([eE] [+-]? [0-9]+)?
\* The value kept is the literal's text.
parseNumber(s, i) ==
    LET intStart == IF At(s, i) = Minus THEN i + 1 ELSE i
        intEnd == IF At(s, intStart) = Zero THEN intStart + 1
                  ELSE skipDigits(s, intStart)
        fracEnd == IF At(s, intEnd) = Dot THEN skipDigits(s, intEnd + 1) ELSE intEnd
        expSign == IF At(s, fracEnd + 1) \in {Plus, Minus} THEN fracEnd + 2
                   ELSE fracEnd + 1
        expEnd == IF At(s, fracEnd) \in {101, 69} THEN skipDigits(s, expSign)
                  ELSE fracEnd
    IN  IF intEnd = intStart
        THEN Failed
        ELSE IF At(s, intEnd) = Dot /\ fracEnd = intEnd + 1
        THEN Failed
        ELSE IF At(s, fracEnd) \in {101, 69} /\ expEnd = expSign
        THEN Failed
        ELSE Parsed(expEnd, "number", SubSeq(s, i, expEnd - 1))

\* true, false, null
LiteralTrue == <<116, 114, 117, 101>>
LiteralFalse == <<102, 97, 108, 115, 101>>
LiteralNull == <<110, 117, 108, 108>>

\* the largest array index, 2^32 - 2, as the digits of its decimal form
MaxArrayIndex == <<52, 50, 57, 52, 57, 54, 55, 50, 57, 52>>

\* a < b for two canonical decimal numerals
DigitsLess(a, b) ==
    \/ Len(a) < Len(b)
    \/ /\ Len(a) = Len(b)
       /\ \E k \in 1..Len(a) :
            /\ a[k] < b[k]
            /\ \A j \in 1..(k - 1) : a[j] = b[j]

\* the key is the canonical decimal form of an integer in 0 .. 2^32 - 2
IsArrayIndex(key) ==
    /\ Len(key) >= 1
    /\ \A k \in 1..Len(key) : key[k] \in Digits
    /\ (Len(key) = 1 \/ key[1] # Zero)
    /\ ~DigitsLess(MaxArrayIndex, key)

\* an object keeps one member per key: a repeated key keeps its place and
\* takes the last value.  The keys of the object are ordered as the runtime
\* orders own properties: array-index keys first, in ascending numeric order,
\* then the other keys in the order of their first occurrence.
PutMember(members, key, val) ==
    IF \E k \in 1..Len(members) : members[k][1] = key
    THEN [k \in 1..Len(members) |->
            IF members[k][1] = key THEN <<key, val>> ELSE members[k]]
    ELSE IF IsArrayIndex(key)
    THEN LET smaller == Cardinality({k \in 1..Len(members) :
                            /\ IsArrayIndex(members[k][1])
                            /\ DigitsLess(members[k][1], key)})
         IN  SubSeq(members, 1, smaller) \o <<<<key, val>>>>
                \o SubSeq(members, smaller + 1, Len(members))
    ELSE Append(members, <<key, val>>)

RECURSIVE parseValue(_, _)
RECURSIVE parseMembers(_, _, _)
RECURSIVE parseElements(_, _, _)

\* i is at the first character of a member's key
parseMembers(s, i, acc) ==
    LET key == parseString(s, i)
        colon == skipSpace(s, key.pos)
        val == parseValue(s, skipSpace(s, colon + 1))
        next == skipSpace(s, val.pos)
    IN  IF ~key.ok \/ At(s, colon) # Colon
        THEN Failed
        ELSE IF ~val.ok
        THEN Failed
        ELSE IF At(s, next) = Comma
        THEN parseMembers(s, skipSpace(s, next + 1), PutMember(acc, key.val.v, val.val))
        ELSE IF At(s, next) = CloseBrace
        THEN Parsed(next + 1, "object", PutMember(acc, key.val.v, val.val))
        ELSE Failed

\* i is at the first character of an element
parseElements(s, i, acc) ==
    LET val == parseValue(s, i)
        next == skipSpace(s, val.pos)
    IN  IF ~val.ok
        THEN Failed
        ELSE IF At(s, next) = Comma
        THEN parseElements(s, skipSpace(s, next + 1), Append(acc, val.val))
        ELSE IF At(s, next) = CloseBracket
        THEN Parsed(next + 1, "array", Append(acc, val.val))
        ELSE Failed

parseValue(s, i) ==
    LET c == At(s, i)
    IN  IF c = OpenBrace
        THEN IF At(s, skipSpace(s, i + 1)) = CloseBrace
             THEN Parsed(skipSpace(s, i + 1) + 1, "object", << >>)
             ELSE parseMembers(s, skipSpace(s, i + 1), << >>)
        ELSE IF c = OpenBracket
        THEN IF At(s, skipSpace(s, i + 1)) = CloseBracket
             THEN Parsed(skipSpace(s, i + 1) + 1, "array", << >>)
             ELSE parseElements(s, skipSpace(s, i + 1), << >>)
        ELSE IF c = Quote
        THEN parseString(s, i)
        ELSE IF c = Minus \/ c \in Digits
        THEN parseNumber(s, i)
        ELSE IF OccursAt(s, LiteralTrue, i)
        THEN Parsed(i + 4, "true", << >>)
        ELSE IF OccursAt(s, LiteralFalse, i)
        THEN Parsed(i + 5, "false", << >>)
        ELSE IF OccursAt(s, LiteralNull, i)
        THEN Parsed(i + 4, "null", << >>)
        ELSE Failed

\* JSON.parse(s): the whole text is one value between optional whitespace;
\* anything else is a SyntaxError (ok = FALSE).
JSONparse(s) ==
    LET r == parseValue(s, skipSpace(s, 1))
    IN  IF r.ok /\ skipSpace(s, r.pos) = Len(s) + 1 THEN r ELSE Failed

----------------------------------------------------------------------------
(* What the remote call can answer.                                        *)

MaxTokens == 4

CrLf == <<13, 10>>
Tab == <<9>>

\* the pieces a response handled by the sanitizing version is made of:
\* fences, whitespace (one character, or a two-character line break),
\* braces, a backslash, an escaped backslash, the letter u, two hexadecimal
\* digits and the control character 0x01
SanitizerTokens ==
    { FenceJson, Fence, Tab, CrLf, <<OpenBrace>>, <<CloseBrace>>,
      <<Backslash>>, <<Backslash, Backslash>>, <<LetterU>>, <<49, 50>>, <<1>> }

\* the pieces a response handled by services/geminiService.ts is made of
InlineTokens ==
    { FenceJson, Fence, Tab, CrLf, <<OpenBrace>>, <<CloseBrace>>, <<49, 50>> }

\* every concatenation of at most n tokens
RECURSIVE Concatenations(_, _)
Concatenations(tokens, n) ==
    IF n = 0
    THEN { << >> }
    ELSE LET shorter == Concatenations(tokens, n - 1)
         IN  shorter \cup { s \o t : s \in shorter, t \in tokens }

\* a fenced answer:
\*   ```json\n{"backgroundColor":"#FFF","elements":[]}\n```
FencedSample ==
    <<96, 96, 96, 106, 115, 111, 110, 10, 123, 34, 98, 97, 99, 107, 103,
      114, 111, 117, 110, 100, 67, 111, 108, 111, 114, 34, 58, 34, 35,
      70, 70, 70, 34, 44, 34, 101, 108, 101, 109, 101, 110, 116, 115,
      34, 58, 91, 93, 125, 10, 96, 96, 96>>

\* the same answer with a line feed after the closing fence:
\*   ```json\n{"backgroundColor":"#FFF","elements":[]}\n```\n
FencedSampleWithNewline ==
    <<96, 96, 96, 106, 115, 111, 110, 10, 123, 34, 98, 97, 99, 107, 103,
      114, 111, 117, 110, 100, 67, 111, 108, 111, 114, 34, 58, 34, 35,
      70, 70, 70, 34, 44, 34, 101, 108, 101, 109, 101, 110, 116, 115,
      34, 58, 91, 93, 125, 10, 96, 96, 96, 10>>

\* an answer with prose around the object:
\*   noise{"backgroundColor":"#000","elements":[]}trailing
ProseSample ==
    <<110, 111, 105, 115, 101, 123, 34, 98, 97, 99, 107, 103, 114, 111,
      117, 110, 100, 67, 111, 108, 111, 114, 34, 58, 34, 35, 48, 48, 48,
      34, 44, 34, 101, 108, 101, 109, 101, 110, 116, 115, 34, 58, 91,
      93, 125, 116, 114, 97, 105, 108, 105, 110, 103>>

\* an answer that no cleaning repairs:
\*   {"backgroundColor": invalid}
InvalidSample ==
    <<123, 34, 98, 97, 99, 107, 103, 114, 111, 117, 110, 100, 67, 111,
      108, 111, 114, 34, 58, 32, 105, 110, 118, 97, 108, 105, 100, 125>>

\* an answer that spells the empty slide out:
\*   {"backgroundColor":"#FFFFFF","elements":[]}
EmptySlideSample ==
    <<123, 34, 98, 97, 99, 107, 103, 114, 111, 117, 110, 100, 67, 111,
      108, 111, 114, 34, 58, 34, 35, 70, 70, 70, 70, 70, 70, 34, 44, 34,
      101, 108, 101, 109, 101, 110, 116, 115, 34, 58, 91, 93, 125>>

\* an answer whose text holds an escaped backslash before a u:
\*   {"content":"C:\\users"}
BackslashSample ==
    <<123, 34, 99, 111, 110, 116, 101, 110, 116, 34, 58, 34, 67, 58, 92,
      92, 117, 115, 101, 114, 115, 34, 125>>

\* an answer whose text holds a truncated unicode escape:
\*   {"content":"\u12 foo"}
TruncatedEscapeSample ==
    <<123, 34, 99, 111, 110, 116, 101, 110, 116, 34, 58, 34, 92, 117,
      49, 50, 32, 102, 111, 111, 34, 125>>

\* an answer whose text quotes a fence:
\*   {"content":"use ```json here"}
FenceInTextSample ==
    <<123, 34, 99, 111, 110, 116, 101, 110, 116, 34, 58, 34, 117, 115,
      101, 32, 96, 96, 96, 106, 115, 111, 110, 32, 104, 101, 114, 101,
      34, 125>>

SampleResponses ==
    { FencedSample, FencedSampleWithNewline, ProseSample, InvalidSample,
      EmptySlideSample, BackslashSample, TruncatedEscapeSample,
      FenceInTextSample }

SanitizerResponses == Concatenations(SanitizerTokens, MaxTokens) \cup SampleResponses
InlineResponses == Concatenations(InlineTokens, MaxTokens) \cup SampleResponses

Variants == {"sanitizing", "inline"}

ResponsesOf(v) == IF v = "sanitizing" THEN SanitizerResponses ELSE InlineResponses

\* response.text: a string, undefined or null
StringText(s) == [kind |-> "string", chars |-> s]
AbsentTexts == { [kind |-> "undefined", chars |-> << >>],
                 [kind |-> "null", chars |-> << >>] }
NoText == [kind |-> "none", chars |-> << >>]

\* !text is false
Truthy(t) == t.kind = "string" /\ t.chars # << >>

\* what ai.models.generateContent can reject with
RemoteErrors == { [name |-> "Error", origin |-> "remote"],
                  [name |-> "SyntaxError", origin |-> "remote"] }

ParseError == [name |-> "SyntaxError", origin |-> "parse"]
NoError == [name |-> "none", origin |-> "none"]

NoValue == [t |-> "none", v |-> << >>]

\* how a request can end: rejected with an error, or resolved with a
\* response whose text is a string, undefined or null
Rejection(e) == [outcome |-> "rejects", error |-> e, text |-> NoText]
Resolution(t) == [outcome |-> "resolves", error |-> NoError, text |-> t]

AnswersOf(v) ==
    { Rejection(e) : e \in RemoteErrors }
        \cup { Resolution(t) : t \in AbsentTexts }
        \cup { Resolution(StringText(s)) : s \in ResponsesOf(v) }

\* { backgroundColor: '#FFFFFF', elements: [] }
DefaultResult ==
    [t |-> "object",
     v |-> << << <<98, 97, 99, 107, 103, 114, 111, 117, 110, 100, 67, 111, 108,
                   111, 114>>,
                 [t |-> "string", v |-> <<35, 70, 70, 70, 70, 70, 70>>] >>,
              << <<101, 108, 101, 109, 101, 110, 116, 115>>,
                 [t |-> "array", v |-> << >>] >> >>]

----------------------------------------------------------------------------
(* analyzeSlideImage.                                                      *)

\* the text handed to JSON.parse
cleanedFor(v, s) == IF v = "sanitizing" THEN sanitizeJsonString(s) ELSE jsonStr(s)

\* takesShortcut testing the trimmed text: blank text counts as empty
takesShortcut_blank(t) ==
    t.kind # "string" \/ \A k \in 1..Len(t.chars) : IsSpace(t.chars[k])

\* `if (!text) return { backgroundColor: '#FFFFFF', elements: [] }`
takesShortcut(t) == ~Truthy(t)

\* catchBlock with the retry branch returning the empty slide
catchBlock_fallback(v, e) ==
    IF v = "sanitizing" /\ e.name = "SyntaxError"
    THEN [pc |-> "returned", result |-> DefaultResult, error |-> NoError,
          warned |-> TRUE, reissued |-> 0]
    ELSE [pc |-> "thrown", result |-> NoValue, error |-> e, warned |-> FALSE,
          reissued |-> 0]

\* The catch block: what the call ends in, given the error caught.  Both
\* versions log and rethrow; the sanitizing one first goes through the
\* "Retrying with more aggressive cleaning..." branch on a SyntaxError,
\* which reads error.message and does nothing else.
catchBlock(v, e) ==
    [pc |-> "thrown",
     result |-> NoValue,
     error |-> e,
     warned |-> (v = "sanitizing" /\ e.name = "SyntaxError"),
     reissued |-> 0]

Init ==
    /\ pc = "idle"
    /\ variant \in Variants
    /\ pending \in AnswersOf(variant)
    /\ calls = 0
    /\ text = NoText
    /\ sanitizedText = << >>
    /\ sanitizeCalls = 0
    /\ parseCalls = 0
    /\ result = NoValue
    /\ error = NoError
    /\ warned = FALSE

\* analyzeSlideImage(base64Image) up to `await ai.models.generateContent`
Invoke ==
    /\ pc = "idle"
    /\ pc' = "awaiting"
    /\ calls' = calls + 1
    /\ UNCHANGED <<variant, pending, text, sanitizedText, sanitizeCalls, parseCalls,
                   result, error, warned>>

\* the request fails: the catch block runs on the remote error
Reject ==
    /\ pc = "awaiting"
    /\ pending.outcome = "rejects"
    /\ LET c == catchBlock(variant, pending.error)
       IN  /\ pc' = c.pc
           /\ result' = c.result
           /\ error' = c.error
           /\ warned' = c.warned
           /\ calls' = calls + c.reissued
    /\ UNCHANGED <<variant, pending, text, sanitizedText, sanitizeCalls, parseCalls>>

\* the request answers and response.text is empty or absent
ResolveEmpty ==
    /\ pc = "awaiting"
    /\ pending.outcome = "resolves"
    /\ takesShortcut(pending.text)
    /\ text' = pending.text
    /\ pc' = "returned"
    /\ result' = DefaultResult
    /\ UNCHANGED <<variant, pending, calls, sanitizedText, sanitizeCalls, parseCalls,
                   error, warned>>

\* the request answers with text that parses after cleaning
ResolveParsed ==
    /\ pc = "awaiting"
    /\ pending.outcome = "resolves"
    /\ ~takesShortcut(pending.text)
    /\ LET cleaned == cleanedFor(variant, pending.text.chars)
           parsed == JSONparse(cleaned)
       IN  /\ parsed.ok
           /\ sanitizedText' = cleaned
           /\ result' = parsed.val
    /\ text' = pending.text
    /\ sanitizeCalls' = sanitizeCalls + 1
    /\ parseCalls' = parseCalls + 1
    /\ pc' = "returned"
    /\ UNCHANGED <<variant, pending, calls, error, warned>>

\* the request answers with text that JSON.parse rejects after cleaning:
\* the catch block runs on the SyntaxError
ResolveMalformed ==
    /\ pc = "awaiting"
    /\ pending.outcome = "resolves"
    /\ ~takesShortcut(pending.text)
    /\ LET cleaned == cleanedFor(variant, pending.text.chars)
           parsed == JSONparse(cleaned)
           c == catchBlock(variant, ParseError)
       IN  /\ ~parsed.ok
           /\ sanitizedText' = cleaned
           /\ pc' = c.pc
           /\ result' = c.result
           /\ error' = c.error
           /\ warned' = c.warned
           /\ calls' = calls + c.reissued
    /\ text' = pending.text
    /\ sanitizeCalls' = sanitizeCalls + 1
    /\ parseCalls' = parseCalls + 1
    /\ UNCHANGED <<variant, pending>>

Next ==
    \/ Invoke
    \/ Reject
    \/ ResolveEmpty
    \/ ResolveParsed
    \/ ResolveMalformed

Spec == Init /\ [][Next]_vars

----------------------------------------------------------------------------
(* Vocabulary of the properties.                                           *)

Final == pc \in {"returned", "thrown"}

\* the call went through sanitizeJsonString
Sanitized == Final /\ variant = "sanitizing" /\ sanitizeCalls = 1

Input == text.chars

Contains(s, c) == \E k \in 1..Len(s) : s[k] = c

ContainsSeq(s, p) == \E k \in 1..Len(s) : OccursAt(s, p, k)

\* 1-based position of the first '{' and of the last '}'
FirstOpen(s) ==
    CHOOSE k \in 1..Len(s) : s[k] = OpenBrace /\ \A m \in 1..(k - 1) : s[m] # OpenBrace

LastClose(s) ==
    CHOOSE k \in 1..Len(s) :
        s[k] = CloseBrace /\ \A m \in (k + 1)..Len(s) : s[m] # CloseBrace

\* a backslash-u at position k that four hexadecimal digits do not follow
DanglingEscapeAt(s, k) ==
    /\ k + 1 <= Len(s)
    /\ s[k] = Backslash
    /\ s[k + 1] = LetterU
    /\ ~(k + 5 <= Len(s) /\ \A m \in 2..5 : s[k + m] \in HexDigits)

HasDanglingEscape(s) == \E k \in 1..Len(s) : DanglingEscapeAt(s, k)

HasRemovedControl(s) == \E k \in 1..Len(s) : s[k] \in RemovedControls

\* the characters of s at the positions in keep, in order
Pick(s, keep) ==
    LET nth == [i \in 1..Cardinality(keep) |->
                    CHOOSE k \in keep : Cardinality({m \in keep : m < k}) = i - 1]
    IN  [i \in 1..Cardinality(keep) |-> s[nth[i]]]

\* s without the backslash of each dangling backslash-u
WithoutDanglingBackslashes(s) ==
    Pick(s, {k \in 1..Len(s) : ~DanglingEscapeAt(s, k)})

\* s without the backslash of each dangling backslash-u and without its
\* removed control characters
Repaired(s) ==
    Pick(s, {k \in 1..Len(s) :
                ~DanglingEscapeAt(s, k) /\ s[k] \notin RemovedControls})

\* the tabs, line feeds and carriage returns of s, in order
KeptWhitespace(s) == Pick(s, {k \in 1..Len(s) : s[k] \in {9, 10, 13}})

Trimmed(s) == s # << >> /\ ~IsSpace(s[1]) /\ ~IsSpace(s[Len(s)])

----------------------------------------------------------------------------
(* C1 *)

EmptyOrAbsent(t) ==
    t.kind \in {"undefined", "null"} \/ (t.kind = "string" /\ Len(t.chars) = 0)

\* C1: when the remote call resolves with text that is empty or absent
\* (empty string, undefined, null), the call returns exactly the default
\* result and neither the cleaning nor JSON.parse has run; when it resolves
\* with any non-empty text, blank text included, the shortcut is not taken:
\* the text is cleaned and handed to JSON.parse once.
C1_EmptyTextShortcut ==
    (Final /\ pending.outcome = "resolves") =>
        IF EmptyOrAbsent(pending.text)
        THEN /\ pc = "returned"
             /\ result = DefaultResult
             /\ sanitizeCalls = 0
             /\ parseCalls = 0
        ELSE /\ sanitizeCalls = 1
             /\ parseCalls = 1
             /\ text = pending.text

\* the empty string took the shortcut
C1_Witness ==
    /\ pc = "returned"
    /\ text = StringText(<< >>)
    /\ result = DefaultResult
    /\ parseCalls = 0

----------------------------------------------------------------------------
(* C2 *)

\* C2: every error raised inside the call is what the call ends in: an
\* error of the remote call is rethrown as it is, a text that JSON.parse
\* rejects after cleaning ends in the SyntaxError, also through the "retry
\* with more aggressive cleaning" branch; no result is returned and the
\* remote call is issued once.
C2_ErrorsPropagate ==
    /\ calls <= 1
    /\ Final => calls = 1
    /\ warned => pc = "thrown" /\ error.name = "SyntaxError"
    /\ (Final /\ pending.outcome = "rejects") =>
            /\ pc = "thrown"
            /\ error = pending.error
            /\ result = NoValue
            /\ parseCalls = 0
    /\ (Final /\ pending.outcome = "resolves" /\ ~EmptyOrAbsent(pending.text)
          /\ ~JSONparse(sanitizedText).ok) =>
            /\ pc = "thrown"
            /\ error = ParseError
            /\ result = NoValue

\* a malformed text went through the retry branch and ended in the error
C2_Witness ==
    /\ pc = "thrown"
    /\ Input = InvalidSample
    /\ warned
    /\ error = ParseError
    /\ calls = 1

----------------------------------------------------------------------------
(* C3 *)

\* "```json" followed by whitespace only
LeadingFence(pre) ==
    pre = << >> \/
    (StartsWith(pre, FenceJson) /\ \A k \in (Len(FenceJson) + 1)..Len(pre) : IsSpace(pre[k]))

\* whitespace, "```", whitespace
TrailingFence(post) ==
    post = << >> \/
    \E p \in 1..Len(post) :
        /\ OccursAt(post, Fence, p)
        /\ \A k \in 1..(p - 1) : IsSpace(post[k])
        /\ \A k \in (p + 3)..Len(post) : IsSpace(post[k])

\* inner content the other steps have nothing to change in
PlainContent(inner) ==
    /\ Trimmed(inner)
    /\ ~Contains(inner, Backtick)
    /\ ~Contains(inner, Backslash)
    /\ ~HasRemovedControl(inner)
    /\ \/ ~Contains(inner, OpenBrace) /\ ~Contains(inner, CloseBrace)
       \/ inner[1] = OpenBrace /\ inner[Len(inner)] = CloseBrace

\* C3: for every input made of an optional leading "```json" fence with any
\* whitespace after it, inner content, and an optional trailing "```" fence
\* with any whitespace before and after it (at least one fence present),
\* the cleaned text is the inner content.
C3_FencesStripped ==
    (Final /\ sanitizeCalls = 1) =>
        \A i \in 1..Len(Input) : \A j \in i..Len(Input) :
            (/\ LeadingFence(SubSeq(Input, 1, i - 1))
             /\ TrailingFence(SubSeq(Input, j + 1, Len(Input)))
             /\ (i > 1 \/ j < Len(Input))
             /\ PlainContent(SubSeq(Input, i, j)))
            => sanitizedText = SubSeq(Input, i, j)

----------------------------------------------------------------------------
(* C4 *)

\* C4 as stated: for every input without fences in which the first '{' comes
\* before the last '}' and text lies outside them, the output is the span
\* from that '{' to that '}', character for character.
C4_SpanVerbatim ==
    (Sanitized /\ ~Contains(Input, Backtick)
        /\ Contains(Input, OpenBrace) /\ Contains(Input, CloseBrace)) =>
        ((FirstOpen(Input) < LastClose(Input)
            /\ (FirstOpen(Input) > 1 \/ LastClose(Input) < Len(Input)))
         => sanitizedText = SubSeq(Input, FirstOpen(Input), LastClose(Input)))

\* C4 amended: for every input, when in the text left after fence stripping
\* and trimming the first '{' comes before the last '}', the output is the
\* span from that '{' to that '}' with the two later substitutions applied:
\* each backslash-u that four hexadecimal digits do not follow has lost its
\* backslash and each removed control character is gone.  The span comes
\* out character for character when it holds neither.
C4_SpanRepaired ==
    Sanitized =>
        LET c == unfenced(Input)
        IN  (Contains(c, OpenBrace) /\ Contains(c, CloseBrace)
                /\ FirstOpen(c) < LastClose(c)) =>
            LET span == SubSeq(c, FirstOpen(c), LastClose(c))
            IN  /\ sanitizedText = Repaired(span)
                /\ (~HasDanglingEscape(span) /\ ~HasRemovedControl(span))
                        => sanitizedText = span

\* the prose around the object was discarded and the object parsed
C4_Witness ==
    /\ Sanitized
    /\ Input = ProseSample
    /\ sanitizedText = SubSeq(ProseSample, 6, Len(ProseSample) - 8)
    /\ pc = "returned"

----------------------------------------------------------------------------
(* C5 *)

\* an input that fence stripping, trimming and the control-character removal
\* leave alone
EscapeStepsOnly(s) ==
    /\ ~Contains(s, Backtick)
    /\ Trimmed(s)
    /\ ~HasRemovedControl(s)

\* the input has a backslash-u, and its braces, if it has both, are in order
EscapeInOrderedText(s) ==
    /\ ContainsSeq(s, <<Backslash, LetterU>>)
    /\ (Contains(s, OpenBrace) /\ Contains(s, CloseBrace))
            => indexOf(s, OpenBrace) < lastIndexOf(s, CloseBrace)

----------------------------------------------------------------------------
(* C6 *)

\* C6 as stated: the output holds no removed control character and every
\* tab, line feed and carriage return of the input is in the output (inputs
\* without fences and braces, where only trimming and the two substitutions
\* act).
C6_WhitespaceOfInputKept ==
    (Sanitized /\ ~Contains(Input, Backtick)
        /\ ~Contains(Input, OpenBrace) /\ ~Contains(Input, CloseBrace)) =>
        /\ ~HasRemovedControl(sanitizedText)
        /\ KeptWhitespace(sanitizedText) = KeptWhitespace(Input)

\* C6 amended: the output holds no removed control character, and every
\* tab, line feed and carriage return of the text left after fence
\* stripping, trimming and brace bounding is in the output, in order; those
\* that the earlier steps drop (at the two ends of the input, the one right
\* after a stripped fence, those outside the braces) are not.  For an input
\* that those steps leave alone, every tab, line feed and carriage return
\* of the input is in the output.
C6_ControlsRemovedWhitespaceKept ==
    Sanitized =>
        /\ ~HasRemovedControl(sanitizedText)
        /\ KeptWhitespace(sanitizedText)
                = KeptWhitespace(boundToBraces(unfenced(Input)))
        /\ (Trimmed(Input) /\ ~Contains(Input, Backtick)
                /\ ~Contains(Input, OpenBrace) /\ ~Contains(Input, CloseBrace))
            => KeptWhitespace(sanitizedText) = KeptWhitespace(Input)

\* 0x01 was removed, the line break inside the braces was kept
C6_Witness ==
    /\ Sanitized
    /\ Input = <<OpenBrace, 1, 13, 10, CloseBrace>>
    /\ sanitizedText = <<OpenBrace, 13, 10, CloseBrace>>

----------------------------------------------------------------------------
(* C7 *)

\* an input that every step other than the "```json" stripping leaves alone
OnlyJsonFenceCanAct(s) ==
    /\ Trimmed(s)
    /\ ~EndsWith(s, Fence)
    /\ ~HasDanglingEscape(s)
    /\ ~HasRemovedControl(s)
    /\ \/ ~Contains(s, OpenBrace) /\ ~Contains(s, CloseBrace)
       \/ s[1] = OpenBrace /\ s[Len(s)] = CloseBrace

\* C7: a "```json" that is not at the start of the input is left in place:
\* an input that does not start with "```json" and that the other steps
\* leave alone comes out unchanged.
C7_OnlyLeadingJsonFenceStripped ==
    (Sanitized /\ ~StartsWith(Input, FenceJson) /\ OnlyJsonFenceCanAct(Input))
        => sanitizedText = Input

----------------------------------------------------------------------------
(* C8 *)

\* C8 as stated: whenever the text left after fence stripping and trimming
\* holds both a '{' and a '}', in any order, the output begins with '{' and
\* ends with '}'; when either brace is missing the bounding changes nothing.
C8_BracesAnyOrder ==
    Sanitized =>
        LET c == unfenced(Input)
        IN  IF Contains(c, OpenBrace) /\ Contains(c, CloseBrace)
            THEN /\ sanitizedText # << >>
                 /\ sanitizedText[1] = OpenBrace
                 /\ sanitizedText[Len(sanitizedText)] = CloseBrace
            ELSE sanitizedText = Repaired(c)

\* C8 amended: whenever in the text left after fence stripping and trimming
\* the first '{' comes before the last '}', the output begins with '{', ends
\* with '}' and is the span of that text from its first '{' to its last '}'
\* (with the later substitutions applied); when either brace is missing the
\* bounding changes nothing; when the last '}' comes before the first '{',
\* the output is made of the text strictly between that '}' and that '{'.
C8_BracesInOrder ==
    Sanitized =>
        LET c == unfenced(Input)
        IN  IF ~(Contains(c, OpenBrace) /\ Contains(c, CloseBrace))
            THEN sanitizedText = Repaired(c)
            ELSE IF FirstOpen(c) < LastClose(c)
            THEN /\ sanitizedText # << >>
                 /\ sanitizedText[1] = OpenBrace
                 /\ sanitizedText[Len(sanitizedText)] = CloseBrace
                 /\ sanitizedText = Repaired(SubSeq(c, FirstOpen(c), LastClose(c)))
            ELSE sanitizedText = Repaired(SubSeq(c, LastClose(c) + 1, FirstOpen(c) - 1))

\* the span ran to the last of two '}'
C8_Witness ==
    /\ Sanitized
    /\ Input = <<LetterU, OpenBrace, CloseBrace, CloseBrace>>
    /\ sanitizedText = <<OpenBrace, CloseBrace, CloseBrace>>

----------------------------------------------------------------------------
(* C9 *)

\* C9: the output of sanitizeJsonString holds no backslash-u that four
\* hexadecimal digits do not follow.
C9_NoDanglingEscapeInOutput ==
    Sanitized => ~HasDanglingEscape(sanitizedText)

----------------------------------------------------------------------------
(* C10 *)

\* every backslash of s from position k on starts a valid JSON escape
RECURSIVE EscapesValidFrom(_, _)
EscapesValidFrom(s, k) ==
    IF k > Len(s)
    THEN TRUE
    ELSE IF s[k] # Backslash
    THEN EscapesValidFrom(s, k + 1)
    ELSE IF k + 1 <= Len(s) /\ s[k + 1] \in {34, 92, 47, 98, 102, 110, 114, 116}
    THEN EscapesValidFrom(s, k + 2)
    ELSE IF k + 5 <= Len(s) /\ s[k + 1] = LetterU
            /\ \A m \in 2..5 : s[k + m] \in HexDigits
    THEN EscapesValidFrom(s, k + 6)
    ELSE FALSE

WellFormed(s) ==
    /\ s # << >>
    /\ s[1] = OpenBrace
    /\ s[Len(s)] = CloseBrace
    /\ ~ContainsSeq(s, Fence)
    /\ ~HasRemovedControl(s)
    /\ EscapesValidFrom(s, 1)

\* C10: an input that starts with '{', ends with '}', holds no fence, no
\* removed control character and only valid escapes comes out unchanged.
C10_IdentityOnWellFormed ==
    (Sanitized /\ WellFormed(Input)) => sanitizedText = Input

====
